---- MODULE Spec2Model ----
(***************************************************************************)
(* A model of src/src/example.c: an SQLite demonstration program.  The     *)
(* program's own functions are operators computed as the C code computes   *)
(* them; the SQLite engine is the environment, and every result code it    *)
(* hands back is an input drawn from a small set.                          *)
(*                                                                         *)
(* Four specifications share the module:                                   *)
(*   Spec           main(): init, insert, aggregate query, serialize       *)
(*   SpecMigration  example_init_schema_migration run repeatedly on a store *)
(*   SpecAgg        the engine driving example_agg_f_step / _final         *)
(*   SpecClock      example_now_monotonic read against an advancing clock  *)
(***************************************************************************)
EXTENDS Integers, Sequences, FiniteSets, TLC

VARIABLES
    pc,            \* main(): the call main is about to make, or "exited"/"crashed"
    db,            \* the store behind example->db: user_version, tables, in_txn, attached
    registered,    \* names of the functions registered with the engine
    live_stmts,    \* statements prepared and not finalized, by preparing function
    fail_stage,    \* the stage during which an engine call first failed, or "none"
    trace,         \* the stages main has run, in order
    main_ret,      \* main's return value (0 until it returns)
    qres,          \* what the last example_custom_aggregate_query did
    mhist,         \* SpecMigration: the migration runs so far (store before and after, result)
    acc,           \* SpecAgg: per group, the engine-allocated accumulator
    fed,           \* SpecAgg: per group, the group-index values of the step calls made
    corrupted,     \* SpecAgg: per group, the guard was overwritten from outside
    alast,         \* SpecAgg: the last step call (accumulator before and after, error)
    aresult,       \* SpecAgg: per group, the blob example_agg_f_final returned
    qstate,        \* SpecAgg: "running", "error" (sqlite3_result_error: aborted), "crashed"
    clock,         \* SpecClock: the monotonic clock, a timespec
    readings       \* SpecClock: the last two readings and the values returned for them

vars == << pc, db, registered, live_stmts, fail_stage, trace, main_ret, qres,
           mhist, acc, fed, corrupted, alast, aresult, qstate, clock, readings >>

mainVars  == << pc, registered, live_stmts, fail_stage, trace, main_ret, qres >>
migVars   == << mhist >>
aggVars   == << acc, fed, corrupted, alast, aresult, qstate >>
clockVars == << clock, readings >>

(***************************************************************************)
(* Bounds of the model.                                                    *)
(***************************************************************************)
\* The iteration cap of the query loop.  The program's value is 1048576
\* (example.c:22); the loop does the same at every cap, and is modelled
\* with a small one.
EXAMPLE_MAX_QUERY_LOOP_STEPS == 3
\* Migration runs against one store.
MaxRuns == 3
\* Rows stepped into one group of the aggregate query.
MaxRows == 2
\* Clock readings taken.
MaxReads == 2

(***************************************************************************)
(* Program constants.                                                      *)
(***************************************************************************)
EXAMPLE_AGG_F_SENTINEL == 8091
\* agg_f->aggregate = 80 on the first step call
AGG_BASELINE == 80
\* num_args of the example_agg_f registration
AGG_NUM_ARGS == 3
\* sizeof(struct example_agg_f_s): two ints
SIZEOF_INT == 4
SIZEOF_AGG_F_S == 2 * SIZEOF_INT

\* Engine result codes as the program compares them.
SQLITE_OK    == 0
SQLITE_ERROR == 1
SQLITE_ROW   == 100
SQLITE_DONE  == 101

(***************************************************************************)
(* The store and sqlite3_exec.                                             *)
(***************************************************************************)
\* The mutant of the schema: the batch does not set the marker.
example_schema_full_no_marker ==
    << [op |-> "begin"],
       [op |-> "create", table |-> "devices"],
       [op |-> "create", table |-> "outputs"],
       [op |-> "create", table |-> "groups"],
       [op |-> "commit"] >>

\* example_schema_full, one entry per statement of the batch.
example_schema_full ==
    << [op |-> "begin"],
       [op |-> "create", table |-> "devices"],
       [op |-> "create", table |-> "outputs"],
       [op |-> "create", table |-> "groups"],
       [op |-> "user_version", value |-> 1],
       [op |-> "commit"] >>

FullTables == {"devices", "outputs", "groups"}

\* example_memory_schema
example_memory_schema ==
    << [op |-> "begin"],
       [op |-> "create", table |-> "state.measured"],
       [op |-> "create", table |-> "state.setpoint"],
       [op |-> "commit"] >>

\* What sqlite3_open_v2 with SQLITE_OPEN_MEMORY hands out: an empty database.
FreshStore ==
    [user_version |-> 0, tables |-> {}, in_txn |-> FALSE, attached |-> FALSE,
     foreign_keys |-> FALSE, devices |-> {}]

\* A statement the engine refuses whatever the environment does.
StmtRefused(d, s) ==
    \/ s.op = "begin"  /\ d.in_txn
    \/ s.op = "commit" /\ ~d.in_txn
    \/ s.op = "create" /\ s.table \in d.tables
    \/ s.op = "attach" /\ d.attached

\* The effect of one statement that succeeds.
StmtApply(d, s) ==
    CASE s.op = "begin"        -> [d EXCEPT !.in_txn = TRUE]
      [] s.op = "commit"       -> [d EXCEPT !.in_txn = FALSE]
      [] s.op = "create"       -> [d EXCEPT !.tables = @ \cup {s.table}]
      [] s.op = "user_version" -> [d EXCEPT !.user_version = s.value]
      [] s.op = "attach"       -> [d EXCEPT !.attached = TRUE]
      [] s.op = "foreign_keys" -> [d EXCEPT !.foreign_keys = s.value]
      [] OTHER                 -> d

\* sqlite3_exec: runs the statements in order and stops at the first one that
\* fails, with the earlier ones applied.  failAt is the statement the
\* environment makes fail (0: none).
RECURSIVE ExecFrom(_, _, _, _)
ExecFrom(d, sql, i, failAt) ==
    IF i > Len(sql) THEN [rc |-> SQLITE_OK, db |-> d]
    ELSE IF i = failAt \/ StmtRefused(d, sql[i]) THEN [rc |-> SQLITE_ERROR, db |-> d]
    ELSE ExecFrom(StmtApply(d, sql[i]), sql, i + 1, failAt)

sqlite3_exec(d, sql, failAt) == ExecFrom(d, sql, 1, failAt)

(***************************************************************************)
(* Schema migration.                                                       *)
(***************************************************************************)
\* The engine's answers to one run of example_init_schema_migration.
MigrationOutcomes ==
    [prepare  : {SQLITE_OK, SQLITE_ERROR},
     step     : {SQLITE_ROW, SQLITE_ERROR},
     finalize : {SQLITE_OK, SQLITE_ERROR},
     exec_at  : 0 .. Len(example_schema_full)]

MigrationAllOk ==
    [prepare |-> SQLITE_OK, step |-> SQLITE_ROW, finalize |-> SQLITE_OK, exec_at |-> 0]

\* example_init_schema_migration_full
example_init_schema_migration_full(d, failAt) ==
    LET r == sqlite3_exec(d, example_schema_full, failAt)
    IN  IF r.rc # SQLITE_OK
        THEN [ret |-> -1, db |-> r.db, failed |-> TRUE]
        ELSE [ret |-> 0, db |-> r.db, failed |-> FALSE]

\* The mutant of the dispatch: every nonzero marker counts as current.
MigrationDispatchLax(d, version, failAt) ==
    IF version = 0
    THEN example_init_schema_migration_full(d, failAt)
    ELSE [ret |-> 0, db |-> d, failed |-> FALSE]

\* The dispatch on the marker read (example.c:264-286).
MigrationDispatch(d, version, failAt) ==
    IF version = 0
    THEN example_init_schema_migration_full(d, failAt)
    ELSE IF version = 1
    THEN [ret |-> 0, db |-> d, failed |-> FALSE]
    ELSE [ret |-> -1, db |-> d, failed |-> FALSE]

\* example_init_schema_migration.  leaked: the statement was prepared and the
\* function returned without finalizing it.  sqlite3_finalize destroys the
\* statement whatever code it returns.
example_init_schema_migration(d, e) ==
    IF e.prepare # SQLITE_OK
    THEN [ret |-> -1, db |-> d, leaked |-> FALSE, failed |-> TRUE]
    ELSE IF e.step # SQLITE_ROW
    THEN [ret |-> -1, db |-> d, leaked |-> TRUE, failed |-> TRUE]
    ELSE LET sqlite3_user_version == d.user_version
         IN  IF e.finalize # SQLITE_OK
             THEN [ret |-> -1, db |-> d, leaked |-> FALSE, failed |-> TRUE]
             ELSE LET r == MigrationDispatch(d, sqlite3_user_version, e.exec_at)
                  IN  [ret |-> r.ret, db |-> r.db, leaked |-> FALSE,
                       failed |-> r.failed]

(***************************************************************************)
(* Initial values of the four parts of the state.                          *)
(***************************************************************************)
MainInit ==
    /\ pc = "example_init"
    /\ registered = {}
    /\ live_stmts = {}
    /\ fail_stage = "none"
    /\ trace = << >>
    /\ main_ret = 0
    /\ qres = [ran |-> FALSE]

MigInit == mhist = << >>

(***************************************************************************)
(* SpecMigration: example_init_schema_migration run against a store that   *)
(* is fresh, current, or carries a marker this program does not know.      *)
(***************************************************************************)
Markers == {-1, 0, 1, 2, 3}

InitialStores ==
    { [FreshStore EXCEPT !.user_version = m,
                         !.tables = IF m = 0 THEN {} ELSE FullTables] : m \in Markers }

Migrate ==
    /\ Len(mhist) < MaxRuns
    /\ \E e \in MigrationOutcomes :
          LET r == example_init_schema_migration(db, e)
          IN  /\ db' = r.db
              /\ mhist' = Append(mhist, [pre |-> db, post |-> r.db, ret |-> r.ret,
                                         failed |-> r.failed,
                                         clean |-> e = MigrationAllOk])
    /\ UNCHANGED << mainVars, aggVars, clockVars >>

(***************************************************************************)
(* The aggregate function example_agg_f.                                   *)
(***************************************************************************)
\* Accumulator memory the engine has not handed out yet.
NoContext == [allocated |-> FALSE, sentinel |-> 0, aggregate |-> 0]

\* sqlite3_aggregate_context: the group's memory, zeroed when first handed out.
sqlite3_aggregate_context(a) ==
    IF a.allocated THEN a ELSE [allocated |-> TRUE, sentinel |-> 0, aggregate |-> 0]

\* The mutant of the first-call branch: the baseline is not set.
AggFirstCallNoBaseline(a) ==
    IF 0 = a.sentinel
    THEN [a EXCEPT !.sentinel = EXAMPLE_AGG_F_SENTINEL]
    ELSE a

\* example.c:119-124: a zero guard marks the first call for the group.
AggFirstCall(a) ==
    IF 0 = a.sentinel
    THEN [a EXCEPT !.aggregate = AGG_BASELINE, !.sentinel = EXAMPLE_AGG_F_SENTINEL]
    ELSE a

\* The mutant of the guard check: no guard is ever found wrong.
AggGuardWrongNever(a) == FALSE

\* example.c:126-131: the guard check.
AggGuardWrong(a) == EXAMPLE_AGG_F_SENTINEL # a.sentinel

\* example_agg_f_step.  mem_ok: the engine could hand out the accumulator;
\* when it could not, sqlite3_aggregate_context returns NULL and the code
\* dereferences it.
example_agg_f_step(a, argc, groupid, mem_ok) ==
    IF argc # 3
    THEN [acc |-> a, error |-> "wrong number of arguments", crashed |-> FALSE]
    ELSE IF ~a.allocated /\ ~mem_ok
    THEN [acc |-> a, error |-> "none", crashed |-> TRUE]
    ELSE LET agg_f == AggFirstCall(sqlite3_aggregate_context(a))
         IN  IF AggGuardWrong(agg_f)
             THEN [acc |-> agg_f, error |-> "sentinel value is wrong", crashed |-> FALSE]
             ELSE [acc |-> [agg_f EXCEPT !.aggregate = @ + groupid],
                   error |-> "none", crashed |-> FALSE]

\* example_agg_f_final: the accumulator's bytes as the result blob.
example_agg_f_final(a) ==
    LET agg == sqlite3_aggregate_context(a)
    IN  [len |-> SIZEOF_AGG_F_S, sentinel |-> agg.sentinel, aggregate |-> agg.aggregate]

(***************************************************************************)
(* SpecAgg: the engine runs the grouped query: for every group it calls    *)
(* the step callback once per row and then the final callback.  Corrupt    *)
(* is memory damage from outside the callbacks.                            *)
(***************************************************************************)
Groups == {"g1", "g2"}
GroupIndexValues == {-3, 5, 7}
GuardDamage == {0, 1, 8090, -1}
NoBlob == [len |-> 0]

AggInit ==
    /\ acc = [g \in Groups |-> NoContext]
    /\ fed = [g \in Groups |-> << >>]
    /\ corrupted = [g \in Groups |-> FALSE]
    /\ alast = [op |-> "none"]
    /\ aresult = [g \in Groups |-> NoBlob]
    /\ qstate = "running"

AggStep(g) ==
    /\ qstate = "running"
    /\ aresult[g] = NoBlob
    /\ Len(fed[g]) < MaxRows
    /\ \E groupid \in GroupIndexValues, mem_ok \in BOOLEAN :
          LET r == example_agg_f_step(acc[g], AGG_NUM_ARGS, groupid, mem_ok)
          IN  /\ acc' = [acc EXCEPT ![g] = r.acc]
              /\ fed' = [fed EXCEPT ![g] = Append(@, groupid)]
              /\ alast' = [op |-> "step", g |-> g, pre |-> acc[g], post |-> r.acc,
                           groupid |-> groupid, error |-> r.error, crashed |-> r.crashed,
                           damaged |-> corrupted[g]]
              /\ qstate' = IF r.crashed THEN "crashed"
                           ELSE IF r.error # "none" THEN "error" ELSE "running"
    /\ UNCHANGED << corrupted, aresult, mainVars, db, migVars, clockVars >>

AggFinal(g) ==
    /\ qstate = "running"
    /\ aresult[g] = NoBlob
    /\ Len(fed[g]) > 0
    /\ aresult' = [aresult EXCEPT ![g] = example_agg_f_final(acc[g])]
    /\ alast' = [op |-> "final", g |-> g]
    /\ UNCHANGED << acc, fed, corrupted, qstate, mainVars, db, migVars, clockVars >>

Corrupt(g) ==
    /\ qstate = "running"
    /\ aresult[g] = NoBlob
    /\ Len(fed[g]) > 0
    /\ ~corrupted[g]
    /\ \E v \in GuardDamage :
          acc' = [acc EXCEPT ![g].sentinel = v]
    /\ corrupted' = [corrupted EXCEPT ![g] = TRUE]
    /\ alast' = [op |-> "corrupt", g |-> g]
    /\ UNCHANGED << fed, aresult, qstate, mainVars, db, migVars, clockVars >>

RECURSIVE SumSeq(_)
SumSeq(q) == IF q = << >> THEN 0 ELSE Head(q) + SumSeq(Tail(q))

(***************************************************************************)
(* The scalar function now_monotonic.  A 64-bit word is four 16-bit limbs, *)
(* most significant first, so that every width of the C code is kept.      *)
(***************************************************************************)
LimbBits == 64 \div 4
LimbMax == 2^LimbBits - 1
LimbSign == 2^(LimbBits - 1)

RECURSIVE BitAnd(_, _, _)
BitAnd(a, b, n) ==
    IF n = 0 THEN 0
    ELSE 2 * BitAnd(a \div 2, b \div 2, n - 1) + (IF a % 2 = 1 /\ b % 2 = 1 THEN 1 ELSE 0)

RECURSIVE BitOr(_, _, _)
BitOr(a, b, n) ==
    IF n = 0 THEN 0
    ELSE 2 * BitOr(a \div 2, b \div 2, n - 1) + (IF a % 2 = 1 \/ b % 2 = 1 THEN 1 ELSE 0)

And64(x, y) == [i \in 1..4 |-> BitAnd(x[i], y[i], LimbBits)]
Or64(x, y)  == [i \in 1..4 |-> BitOr(x[i], y[i], LimbBits)]
\* x <<= 32 on a uint64_t
Shl32(x) == << x[3], x[4], 0, 0 >>

\* The mutant of the masks: 16 bits of each field, as the comment in the code says.
MASK_FFFF == << 0, 0, 0, LimbMax >>

\* 0xffffffff
MASK_FFFFFFFF == << 0, 0, LimbMax, LimbMax >>

\* example.c:173-175: the packed uint64_t
PackTime(tp) ==
    Or64(Shl32(And64(tp.tv_sec, MASK_FFFFFFFF)), And64(tp.tv_nsec, MASK_FFFFFFFF))

\* Unsigned order of two words.
RECURSIVE LimbsLE(_, _, _)
LimbsLE(x, y, i) ==
    IF i > 4 THEN TRUE
    ELSE IF x[i] < y[i] THEN TRUE
    ELSE IF x[i] > y[i] THEN FALSE
    ELSE LimbsLE(x, y, i + 1)

\* sqlite3_result_int64 takes the uint64_t as a signed 64-bit integer: the
\* top bit is the sign.
IsNegative64(x) == x[1] >= LimbSign

\* x <= y as signed 64-bit integers (two's complement)
SignedLE(x, y) ==
    IF IsNegative64(x) # IsNegative64(y) THEN IsNegative64(x) ELSE LimbsLE(x, y, 1)

\* example_now_monotonic.  gettime_ok: clock_gettime did not return -1.
example_now_monotonic(tp, gettime_ok) ==
    IF ~gettime_ok
    THEN [error |-> "clock_gettime returned -1"]
    ELSE [error |-> "none", tp |-> tp, value |-> PackTime(tp)]

(***************************************************************************)
(* SpecClock: the monotonic clock advances, and now_monotonic is read.     *)
(***************************************************************************)
\* tv_sec values: 0, 1, 65535, 65536, 2^31 - 1, 2^31, 2^32 - 1, 2^32, 2^32 + 1
SecValues ==
    { << 0, 0, 0, 0 >>, << 0, 0, 0, 1 >>, << 0, 0, 0, LimbMax >>, << 0, 0, 1, 0 >>,
      << 0, 0, LimbSign - 1, LimbMax >>, << 0, 0, LimbSign, 0 >>,
      << 0, 0, LimbMax, LimbMax >>, << 0, 1, 0, 0 >>, << 0, 1, 0, 1 >> }

\* tv_nsec values: 0, 1, 65535, 65536, 999999999
NsecValues ==
    { << 0, 0, 0, 0 >>, << 0, 0, 0, 1 >>, << 0, 0, 0, LimbMax >>, << 0, 0, 1, 0 >>,
      << 0, 0, 15258, 51711 >> }

Times == [tv_sec : SecValues, tv_nsec : NsecValues]

\* a <= b as clock readings
TimeLE(a, b) ==
    \/ a.tv_sec # b.tv_sec /\ LimbsLE(a.tv_sec, b.tv_sec, 1)
    \/ a.tv_sec = b.tv_sec /\ LimbsLE(a.tv_nsec, b.tv_nsec, 1)

Zero64 == << 0, 0, 0, 0 >>

ClockInit ==
    /\ clock = [tv_sec |-> Zero64, tv_nsec |-> Zero64]
    /\ readings = << >>

Tick ==
    /\ Len(readings) < MaxReads
    /\ \E t \in Times : TimeLE(clock, t) /\ t # clock /\ clock' = t
    /\ UNCHANGED << mainVars, db, migVars, aggVars, readings >>

ReadClock ==
    /\ Len(readings) < MaxReads
    /\ \E gettime_ok \in BOOLEAN :
          readings' = Append(readings, example_now_monotonic(clock, gettime_ok))
    /\ UNCHANGED << mainVars, db, migVars, aggVars, clock >>

(***************************************************************************)
(* The functions main calls.  Each returns its return value, the store,    *)
(* leaked (a statement it prepared is still not finalized when it returns) *)
(* and failed (an engine call it made failed).                             *)
(***************************************************************************)
\* example_init_schema_memory
example_init_schema_memory(d, attach_at, mem_at) ==
    LET a == sqlite3_exec(d, << [op |-> "attach"] >>, attach_at)
    IN  IF a.rc # SQLITE_OK
        THEN [ret |-> -1, db |-> a.db, failed |-> TRUE]
        ELSE LET m == sqlite3_exec(a.db, example_memory_schema, mem_at)
             IN  IF m.rc # SQLITE_OK
                 THEN [ret |-> -1, db |-> m.db, failed |-> TRUE]
                 ELSE [ret |-> 0, db |-> m.db, failed |-> FALSE]

\* example_init_custom_agg_function
example_init_custom_agg_function(reg, rc) ==
    IF rc # SQLITE_OK
    THEN [ret |-> -1, registered |-> reg, failed |-> TRUE]
    ELSE [ret |-> 0, registered |-> reg \cup {"example_agg_f"}, failed |-> FALSE]

\* example_init_custom_now_monotonic_function.  No function of the program
\* calls it.
example_init_custom_now_monotonic_function(reg, rc) ==
    IF rc # SQLITE_OK
    THEN [ret |-> -1, registered |-> reg, failed |-> TRUE]
    ELSE [ret |-> 0, registered |-> reg \cup {"now_monotonic"}, failed |-> FALSE]

\* The engine's answers to one run of example_init.
InitOutcomes ==
    [initialize : {SQLITE_OK, SQLITE_ERROR},
     open       : {SQLITE_OK, SQLITE_ERROR},
     fk_at      : 0 .. 1,
     mig        : MigrationOutcomes,
     attach_at  : 0 .. 1,
     mem_at     : 0 .. Len(example_memory_schema),
     create_agg : {SQLITE_OK, SQLITE_ERROR}]

\* example_init
example_init(d, reg, e) ==
    LET quit(store, leaked) ==
            [ret |-> -1, db |-> store, registered |-> reg, leaked |-> leaked,
             failed |-> TRUE]
    IN
    IF e.initialize # SQLITE_OK THEN quit(d, FALSE)
    ELSE IF e.open # SQLITE_OK THEN quit(d, FALSE)
    ELSE LET fk == sqlite3_exec(d, << [op |-> "foreign_keys", value |-> TRUE] >>, e.fk_at)
         IN
         IF fk.rc # SQLITE_OK THEN quit(fk.db, FALSE)
         ELSE LET mig == example_init_schema_migration(fk.db, e.mig)
              IN
              IF -1 = mig.ret
              THEN [ret |-> -1, db |-> mig.db, registered |-> reg,
                    leaked |-> mig.leaked, failed |-> mig.failed]
              ELSE LET mem == example_init_schema_memory(mig.db, e.attach_at, e.mem_at)
                   IN
                   IF -1 = mem.ret THEN quit(mem.db, FALSE)
                   ELSE LET agg == example_init_custom_agg_function(reg, e.create_agg)
                        IN
                        IF -1 = agg.ret THEN quit(mem.db, FALSE)
                        ELSE [ret |-> 0, db |-> mem.db, registered |-> agg.registered,
                              leaked |-> FALSE, failed |-> FALSE]

\* The deviceid main passes, "0123456789012", and its deviceid_len.
MainDeviceId == << 0, 1, 2, 3, 4, 5, 6, 7, 8, 9, 0, 1, 2 >>
MainDeviceIdLen == 12
\* check (length(deviceid)==12)
DEVICEID_LENGTH == 12
NullValue == << "NULL" >>

\* The insert's step: the storage layer refuses a NULL, a deviceid of the
\* wrong length, a duplicate key and a missing table.
InsertRefused(d, value) ==
    \/ "devices" \notin d.tables
    \/ value = NullValue
    \/ Len(value) # DEVICEID_LENGTH
    \/ value \in d.devices

DeviceNewOutcomes ==
    [prepare  : {SQLITE_OK, SQLITE_ERROR},
     bind     : {SQLITE_OK, SQLITE_ERROR},
     step     : {SQLITE_DONE, SQLITE_ERROR},
     finalize : {SQLITE_OK, SQLITE_ERROR}]

\* example_device_new.  A parameter whose bind failed stays NULL.
example_device_new(d, deviceid, deviceid_len, e) ==
    IF e.prepare # SQLITE_OK \/ "devices" \notin d.tables
    THEN [ret |-> -1, db |-> d, leaked |-> FALSE, failed |-> TRUE]
    ELSE IF -1 = e.bind
    THEN [ret |-> -1, db |-> d, leaked |-> TRUE, failed |-> TRUE]
    ELSE LET value == IF e.bind = SQLITE_OK
                      THEN SubSeq(deviceid, 1, deviceid_len)
                      ELSE NullValue
             step  == IF InsertRefused(d, value) THEN SQLITE_ERROR ELSE e.step
         IN  IF SQLITE_DONE # step
             THEN [ret |-> -1, db |-> d, leaked |-> TRUE, failed |-> TRUE]
             ELSE LET stored == [d EXCEPT !.devices = @ \cup {value}]
                  IN  IF e.finalize # SQLITE_OK
                      THEN [ret |-> -1, db |-> stored, leaked |-> FALSE, failed |-> TRUE]
                      ELSE [ret |-> 0, db |-> stored, leaked |-> FALSE, failed |-> FALSE]

\* One answer of sqlite3_step in the query loop.  len is the length of the
\* row's blob (0: sqlite3_column_blob returns NULL); oob is what reading
\* res->aggregate beyond a shorter blob does.
RowOutcomes ==
    [rc : {SQLITE_ROW}, len : {0, SIZEOF_AGG_F_S, SIZEOF_AGG_F_S + SIZEOF_INT},
     oob : {"crash"}]
    \cup [rc : {SQLITE_ROW}, len : {SIZEOF_INT}, oob : {"crash", "garbage"}]

StepOutcomes ==
    RowOutcomes \cup [rc : {SQLITE_DONE, SQLITE_ERROR}, len : {0}, oob : {"crash"}]

QueryOutcomes ==
    [prepare : {SQLITE_OK, SQLITE_ERROR},
     steps   : [1 .. EXAMPLE_MAX_QUERY_LOOP_STEPS -> StepOutcomes]]

\* The mutant of the check after the loop: leaving the loop is success.
QueryLoopExitAlwaysOk(ret) == 0

\* example.c:567-573: the check after the loop.
QueryLoopExit(ret) == IF SQLITE_DONE # ret THEN -1 ELSE 0

\* example.c:553-566: the loop.  i: the loop counter; ret: the last result
\* code; read: the blob lengths of the rows read as accumulators.
RECURSIVE QueryLoop(_, _, _, _)
QueryLoop(i, ret, read, outs) ==
    IF ~(i < EXAMPLE_MAX_QUERY_LOOP_STEPS)
    THEN [exit |-> "cap", ret |-> ret, steps |-> i, read |-> read]
    ELSE LET o == outs[i + 1]
         IN  IF SQLITE_DONE = o.rc
             THEN [exit |-> "break", ret |-> o.rc, steps |-> i + 1, read |-> read]
             ELSE IF SQLITE_ROW # o.rc
             THEN [exit |-> "return", ret |-> o.rc, steps |-> i + 1, read |-> read]
             ELSE IF o.len = 0 \/ (o.len < SIZEOF_AGG_F_S /\ o.oob = "crash")
             THEN [exit |-> "crash", ret |-> o.rc, steps |-> i + 1, read |-> read]
             ELSE QueryLoop(i + 1, o.rc, Append(read, o.len), outs)

\* example_custom_aggregate_query.  It has no call of sqlite3_finalize.
\* When crashed, the function does not return and ret is not delivered.
example_custom_aggregate_query(e) ==
    IF e.prepare # SQLITE_OK
    THEN [ret |-> -1, leaked |-> FALSE, failed |-> TRUE, crashed |-> FALSE,
          steps |-> 0, read |-> << >>, exit |-> "prepare"]
    ELSE LET l == QueryLoop(0, 0, << >>, e.steps)
         IN  [ret     |-> IF l.exit = "return" THEN -1 ELSE QueryLoopExit(l.ret),
              leaked  |-> TRUE,
              failed  |-> l.exit = "return",
              crashed |-> l.exit = "crash",
              steps   |-> l.steps, read |-> l.read, exit |-> l.exit]

\* sqlite3_serialize: the buffer, or NULL with *piSize -1 (the schema is not
\* there, the page count cannot be read), or NULL with *piSize the size
\* (the buffer cannot be allocated).
SerializeOutcomes ==
    { [db |-> "buffer", db_len |-> 8192],
      [db |-> "NULL", db_len |-> -1],
      [db |-> "NULL", db_len |-> 8192] }

\* example_serialize
example_serialize(e) ==
    IF -1 = e.db_len
    THEN [ret |-> -1, failed |-> TRUE]
    ELSE [ret |-> 0, failed |-> e.db = "NULL"]

(***************************************************************************)
(* Spec: main.  Each action is one call of main together with main's       *)
(* check of what it returned.                                              *)
(***************************************************************************)
\* main's checks: -1 from a stage makes main return -1.
AfterStage(stage, r, next) ==
    /\ trace' = Append(trace, stage)
    /\ fail_stage' = IF fail_stage = "none" /\ r.failed THEN stage ELSE fail_stage
    /\ IF -1 = r.ret
       THEN pc' = "exited" /\ main_ret' = -1
       ELSE pc' = next /\ main_ret' = 0

Leak(stage, r) ==
    live_stmts' = IF r.leaked THEN live_stmts \cup {stage} ELSE live_stmts

CallInit ==
    /\ pc = "example_init"
    /\ \E e \in InitOutcomes :
          LET r == example_init(db, registered, e)
          IN  /\ db' = r.db
              /\ registered' = r.registered
              /\ Leak("example_init", r)
              /\ AfterStage("example_init", r, "example_device_new")
    /\ UNCHANGED << qres, migVars, aggVars, clockVars >>

CallDeviceNew ==
    /\ pc = "example_device_new"
    /\ \E e \in DeviceNewOutcomes :
          LET r == example_device_new(db, MainDeviceId, MainDeviceIdLen, e)
          IN  /\ db' = r.db
              /\ Leak("example_device_new", r)
              /\ AfterStage("example_device_new", r, "example_custom_aggregate_query")
    /\ UNCHANGED << registered, qres, migVars, aggVars, clockVars >>

CallAggregateQuery ==
    /\ pc = "example_custom_aggregate_query"
    /\ \E e \in QueryOutcomes :
          LET r == example_custom_aggregate_query(e)
          IN  /\ qres' = [ran |-> TRUE, returned |-> ~r.crashed, ret |-> r.ret,
                          steps |-> r.steps,
                          read |-> r.read, exit |-> r.exit,
                          rows |-> [i \in 1 .. r.steps |-> e.steps[i]]]
              /\ Leak("example_custom_aggregate_query", r)
              /\ IF r.crashed
                 THEN /\ pc' = "crashed"
                      /\ trace' = Append(trace, "example_custom_aggregate_query")
                      /\ UNCHANGED << fail_stage, main_ret >>
                 ELSE AfterStage("example_custom_aggregate_query", r, "example_serialize")
    /\ UNCHANGED << db, registered, migVars, aggVars, clockVars >>

CallSerialize ==
    /\ pc = "example_serialize"
    /\ \E e \in SerializeOutcomes :
          LET r == example_serialize(e)
          IN  AfterStage("example_serialize", r, "exited")
    /\ UNCHANGED << db, registered, live_stmts, qres, migVars, aggVars, clockVars >>

\* The process's exit status: the low byte of main's return value.
ExitStatus == main_ret % 256

(***************************************************************************)
(* The specifications.                                                     *)
(***************************************************************************)
Init == MainInit /\ db = FreshStore /\ MigInit /\ AggInit /\ ClockInit
Next == CallInit \/ CallDeviceNew \/ CallAggregateQuery \/ CallSerialize
Spec == Init /\ [][Next]_vars

InitMigration == MainInit /\ db \in InitialStores /\ MigInit /\ AggInit /\ ClockInit
NextMigration == Migrate
SpecMigration == InitMigration /\ [][NextMigration]_vars

InitAgg == MainInit /\ db = FreshStore /\ MigInit /\ AggInit /\ ClockInit
NextAgg == \E g \in Groups : AggStep(g) \/ AggFinal(g) \/ Corrupt(g)
SpecAgg == InitAgg /\ [][NextAgg]_vars

InitClock == MainInit /\ db = FreshStore /\ MigInit /\ AggInit /\ ClockInit
NextClock == Tick \/ ReadClock
SpecClock == InitClock /\ [][NextClock]_vars

(***************************************************************************)
(* The claims.                                                             *)
(***************************************************************************)

\* C1: example_init_schema_migration dispatches on the marker it reads.
\* Marker 0, the engine accepting every call: the full schema is applied,
\* the marker becomes 1 and the run succeeds.  Marker 1: nothing changes,
\* and the run succeeds when the engine accepts every call.  Any other
\* marker: the run fails and the store is what it was.
C1_MigrationDispatch ==
    \A i \in 1 .. Len(mhist) :
        LET r == mhist[i]
        IN  /\ (r.pre.user_version = 0 /\ ~r.failed) =>
                  /\ r.ret = 0
                  /\ r.post.tables = r.pre.tables \cup FullTables
                  /\ FullTables \cap r.pre.tables = {}
                  /\ r.post.user_version = 1
            /\ r.pre.user_version = 1 =>
                  /\ r.post = r.pre
                  /\ ~r.failed => r.ret = 0
            /\ r.pre.user_version \notin {0, 1} =>
                  /\ r.ret = -1
                  /\ r.post = r.pre

\* C1 witness: a store whose marker is too new was refused and left alone.
C1_Witness ==
    /\ Len(mhist) = 1
    /\ mhist[1].pre.user_version = 2
    /\ mhist[1].clean
    /\ mhist[1].ret = -1
    /\ db = mhist[1].pre

\* C8: a first run on a fresh store succeeds and leaves the marker at 1; a
\* second run on the store the first one left succeeds too and leaves the
\* store as the first run left it (the engine accepting every call).
C8_SchemaIdempotence ==
    (Len(mhist) >= 1 /\ mhist[1].pre = FreshStore /\ mhist[1].clean) =>
        /\ mhist[1].ret = 0
        /\ mhist[1].post.user_version = 1
        /\ mhist[1].post.tables = FullTables
        /\ (Len(mhist) >= 2 /\ mhist[2].clean) =>
              /\ mhist[2].ret = 0
              /\ mhist[2].pre = mhist[1].post
              /\ mhist[2].post = mhist[1].post

\* C8 witness: two clean runs on a fresh store, both successful.
C8_Witness ==
    /\ Len(mhist) = 2
    /\ mhist[1].pre = FreshStore
    /\ mhist[1].clean /\ mhist[2].clean
    /\ mhist[1].ret = 0 /\ mhist[2].ret = 0
    /\ db.user_version = 1 /\ db.tables = FullTables

StepSucceeded == alast.op = "step" /\ alast.error = "none" /\ ~alast.crashed

\* The step call last made found the guard damaged to v.
StepOnDamage(v) ==
    /\ alast.op = "step"
    /\ alast.damaged
    /\ alast.pre.sentinel = v

\* C3 as claimed: after a successful step the guard is the sentinel, and a
\* guard changed to ANY value other than the sentinel makes the next step
\* report the guard violation and leave the running sum alone.
C3_GuardAnyDamage ==
    /\ StepSucceeded => acc[alast.g].sentinel = EXAMPLE_AGG_F_SENTINEL
    /\ \A v \in GuardDamage \ {EXAMPLE_AGG_F_SENTINEL} :
           StepOnDamage(v) =>
               /\ alast.error = "sentinel value is wrong"
               /\ alast.post.aggregate = alast.pre.aggregate

\* C3 amended: after a successful step the guard is the sentinel; a guard
\* changed to any NONZERO value other than the sentinel makes the next step
\* report the guard violation and leave the accumulator alone; a guard
\* changed to 0 is taken for a first call: no error, the running sum starts
\* again from 80 and the guard is the sentinel again.
C3_GuardIntegrity ==
    /\ StepSucceeded => acc[alast.g].sentinel = EXAMPLE_AGG_F_SENTINEL
    /\ \A g \in Groups :
           (qstate = "running" /\ Len(fed[g]) > 0 /\ ~corrupted[g]) =>
               acc[g].sentinel = EXAMPLE_AGG_F_SENTINEL
    /\ \A v \in GuardDamage \ {0, EXAMPLE_AGG_F_SENTINEL} :
           StepOnDamage(v) =>
               /\ alast.error = "sentinel value is wrong"
               /\ qstate = "error"
               /\ alast.post = alast.pre
               /\ acc[alast.g] = alast.pre
    /\ StepOnDamage(0) =>
           /\ alast.error = "none"
           /\ alast.post.aggregate = AGG_BASELINE + alast.groupid
           /\ alast.post.sentinel = EXAMPLE_AGG_F_SENTINEL

\* C3 witness: a step call on a guard damaged to 8090 reported the violation.
C3_Witness ==
    /\ StepOnDamage(8090)
    /\ alast.error = "sentinel value is wrong"
    /\ alast.post.aggregate = alast.pre.aggregate
    /\ qstate = "error"

\* C4 as claimed: whenever a function has returned, every statement it
\* prepared has been finalized.
C4_StatementsFinalized == live_stmts = {}

\* C5 as claimed: an engine call that fails makes its stage return failure,
\* main exit with a nonzero status, and no later stage run.
C5_FailuresPropagate ==
    fail_stage # "none" =>
        /\ pc = "exited"
        /\ ExitStatus # 0
        /\ trace[Len(trace)] = fail_stage

\* C6 as claimed: when initialization has succeeded, now_monotonic and
\* example_agg_f are both registered before the insert or the query runs.
C6_ExtensionsRegistered ==
    (pc = "example_device_new" \/ Len(trace) >= 2) =>
        {"now_monotonic", "example_agg_f"} \subseteq registered

\* C7: the query makes at most EXAMPLE_MAX_QUERY_LOOP_STEPS step calls; when
\* the engine reports "no more rows" within the cap the query succeeds; when
\* every step within the cap returned a row the query fails.
C7_BoundedIteration ==
    (qres.ran /\ qres.exit # "prepare") =>
        /\ qres.steps <= EXAMPLE_MAX_QUERY_LOOP_STEPS
        /\ qres.exit = "break" => qres.ret = 0
        /\ qres.exit = "cap" =>
              /\ qres.steps = EXAMPLE_MAX_QUERY_LOOP_STEPS
              /\ \A i \in 1 .. qres.steps : qres.rows[i].rc = SQLITE_ROW
              /\ qres.ret = -1
              /\ pc = "exited" /\ ExitStatus # 0
        /\ (/\ qres.steps = EXAMPLE_MAX_QUERY_LOOP_STEPS
            /\ \A i \in 1 .. qres.steps : qres.rows[i].rc = SQLITE_ROW
            /\ qres.returned) => qres.ret = -1

\* C7 witness: every step up to the cap returned a row; the query failed.
C7_Witness ==
    /\ qres.ran
    /\ qres.exit = "cap"
    /\ qres.steps = EXAMPLE_MAX_QUERY_LOOP_STEPS
    /\ Len(qres.read) = EXAMPLE_MAX_QUERY_LOOP_STEPS
    /\ qres.ret = -1

\* C9 as claimed: a row whose blob is not sizeof(struct example_agg_f_s)
\* bytes long makes the query return failure, and is not read as an
\* accumulator.  Stated of the runs in which the query returns: a run that
\* dies reading beyond a short blob returns nothing.
C9_WrongLengthIsDecodeError ==
    (qres.ran /\ qres.returned) =>
        \A i \in 1 .. qres.steps :
            (qres.rows[i].rc = SQLITE_ROW /\ qres.rows[i].len # SIZEOF_AGG_F_S) =>
                /\ qres.ret = -1
                /\ \A k \in 1 .. Len(qres.read) : qres.read[k] = SIZEOF_AGG_F_S

\* Two readings one after the other, both delivered.
Sequential(i) ==
    /\ i + 1 <= Len(readings)
    /\ readings[i].error = "none"
    /\ readings[i + 1].error = "none"

\* tv_sec in 0 .. 2^31 - 1
SecBelow2p31(tp) == tp.tv_sec[1] = 0 /\ tp.tv_sec[2] = 0 /\ tp.tv_sec[3] < LimbSign

====
